---- MODULE Spec2Model ----
(***************************************************************************)
(* Order lifecycle of the astrocartography payment subsystem: the two      *)
(* checkout routes insert orders, the PayPal pay-success page captures,    *)
(* and the Stripe, PayPal and Creem webhook handlers of services/order.ts  *)
(* reconcile payment notifications with the orders table.                  *)
(*                                                                         *)
(* A webhook handler is an async function: it is modelled step by step,    *)
(* one step per database call it awaits (lookup, updateOrderStatus,        *)
(* updateCreditForOrder, updateAffiliateForOrder, sendOrderConfirmation-   *)
(* Email).  Spec lets invocations interleave at those awaits; SpecSeq      *)
(* runs each invocation to completion before the next one starts; SpecObs  *)
(* does so too and keeps how each invocation ended; SpecCheckout is the    *)
(* checkout routes alone, under every setting of the environment, and      *)
(* SpecPricing the same routes over requests built from the pricing table. *)
(* SpecCreem and SpecNumbered send requests through the Creem webhook      *)
(* route, SpecScan runs the scans of handleCreemOrder over long tables     *)
(* while days pass, SpecMail follows payments with and without a payer    *)
(* e-mail to the confirmation e-mail, and SpecPayment follows the client   *)
(* hook usePayment.processPayment through its posts to the two routes.     *)
(***************************************************************************)
EXTENDS Integers, Sequences, FiniteSets, TLC

\* ---------------------------------------------------------------- bounds
MaxOrders == 2
MaxProcs == 2
MaxTime == 1
LateTime == 2

OrderNos == 1..MaxOrders
Procs == 1..MaxProcs

\* One tick of the clock stands for the 24 hours of the scans' window.
Day == 1
ScanLimitCreemId == 50
ScanLimitAmount == 10

\* ------------------------------------------------------------ plain data
\* JavaScript falsy values: "" for strings, 0 for numbers, <<>> for ids.
NoId == <<>>
PayPalId(o) == <<"PP", o>>
StripeId(o) == <<"CS", o>>
CreemSessionId(o) == <<"CH", o>>
CreemOrderId(o) == <<"ORD", o>>

\* String.prototype.toLowerCase on the e-mail addresses and the statuses of
\* the model.
toLowerCase(s) ==
  IF s = "A@x.io" THEN "a@x.io" ELSE IF s = "PAID" THEN "paid" ELSE s

\* Math.abs
Abs(n) == IF n < 0 THEN 0 - n ELSE n

OrderStatusCreated == "created"
OrderStatusPaid == "paid"

\* The pricing table getPricingPage(locale) returns: the credits pack, the
\* subscriptions, and entries an editor got wrong (an interval the site
\* does not know, months that do not fit the interval, no amount).
PricingItems ==
  { [product_id |-> "basic", amount |-> 10, cn_amount |-> 70, currency |-> "usd",
     interval |-> "one-time", credits |-> 100, valid_months |-> 0],
    [product_id |-> "monthly", amount |-> 11, cn_amount |-> 77, currency |-> "usd",
     interval |-> "month", credits |-> 0, valid_months |-> 1],
    [product_id |-> "yearly", amount |-> 12, cn_amount |-> 84, currency |-> "usd",
     interval |-> "year", credits |-> 0, valid_months |-> 12],
    [product_id |-> "weekly", amount |-> 10, cn_amount |-> 70, currency |-> "usd",
     interval |-> "week", credits |-> 0, valid_months |-> 0],
    [product_id |-> "halfyear", amount |-> 12, cn_amount |-> 84, currency |-> "usd",
     interval |-> "year", credits |-> 0, valid_months |-> 6],
    [product_id |-> "bimonthly", amount |-> 11, cn_amount |-> 77, currency |-> "usd",
     interval |-> "month", credits |-> 0, valid_months |-> 2],
    [product_id |-> "free", amount |-> 0, cn_amount |-> 70, currency |-> "usd",
     interval |-> "one-time", credits |-> 100, valid_months |-> 0] }

\* Who calls a checkout route: the session's uuid and e-mail, and the e-mail
\* of the user record findUserByUuid returns ("" when there is none).
Callers ==
  { [uuid |-> "", session_email |-> "", db_email |-> ""],
    [uuid |-> "u1", session_email |-> "A@x.io", db_email |-> "A@x.io"],
    [uuid |-> "u1", session_email |-> "", db_email |-> "A@x.io"],
    [uuid |-> "u2", session_email |-> "", db_email |-> ""] }

SignedIn == { c \in Callers : c.session_email # "" }

\* The callers and a user whose e-mail only the user record holds.
Visitors == Callers \cup { [uuid |-> "u3", session_email |-> "", db_email |-> "c@x.io"] }

\* process.env: which gateway settings are present.
Envs ==
  [STRIPE_PRIVATE_KEY : BOOLEAN, PAYPAL_CLIENT_ID : BOOLEAN,
   PAYPAL_CLIENT_SECRET : BOOLEAN, CREEM_API_KEY : BOOLEAN,
   NEXT_PUBLIC_CREEM_PRODUCT_ID : BOOLEAN]

FullEnv ==
  [STRIPE_PRIVATE_KEY |-> TRUE, PAYPAL_CLIENT_ID |-> TRUE,
   PAYPAL_CLIENT_SECRET |-> TRUE, CREEM_API_KEY |-> TRUE,
   NEXT_PUBLIC_CREEM_PRODUCT_ID |-> FALSE]

\* ------------------------------------------------------------- variables
VARIABLES
  env,        \* process.env
  now,        \* the clock
  orders,     \* the orders table: a sequence, order_no = index
  calls,      \* per order: how often updateOrderStatus, updateCreditForOrder
              \* and updateAffiliateForOrder were invoked for it
  paypal,     \* PayPal's side of each PayPal order: "none", "created",
              \* "approved" or "captured"
  proc,       \* the webhook handler invocations
  lastCheckout \* the response of the latest checkout request

vars == <<env, now, orders, calls, paypal, proc, lastCheckout>>

NoDetail == [kind |-> "none", url_ids |-> {}, creem_order_id |-> NoId,
             amount |-> 0, user_email |-> ""]

NoCalls == [status |-> 0, credit |-> 0, affiliate |-> 0]

NoData == [gateway |-> "none"]

\* No signature header: signature is "".
NoSignature == [present |-> FALSE, prefix |-> "", digest |-> <<>>]

\* No request of the Creem webhook route.
NoRequest == [secret |-> "", signature |-> NoSignature, body |-> [kind |-> "none"]]

IdleProc == [pc |-> "idle", kind |-> "none", data |-> NoData, order_no |-> 0,
             paid_email |-> "", path |-> "none", err |-> "", event |-> <<"", "">>,
             no_id |-> FALSE, fallback |-> FALSE, request |-> NoRequest]

NoCheckout == [route |-> "none", requested |-> "", err |-> "", payment_method |-> "",
               inserted |-> 0]

\* The site before its first order, deployed with the settings of envs.
Deployed(envs) ==
  /\ env \in envs
  /\ now = 0
  /\ orders = <<>>
  /\ calls = <<>>
  /\ paypal = <<>>
  /\ proc = [p \in Procs |-> IdleProc]
  /\ lastCheckout = NoCheckout

Init == Deployed({FullEnv})

\* Time passes.
Tick ==
  /\ now < MaxTime
  /\ now' = now + 1
  /\ UNCHANGED <<env, orders, calls, paypal, proc, lastCheckout>>

\* ------------------------------------------------------- models/order.ts
\* insertOrder: a new row; order_no (getSnowId) is the next unused number.
insertOrder(tbl, row) == Append(tbl, row)

\* updateOrderSession: stores the gateway's session id and the order_detail.
updateOrderSession(tbl, order_no, session_id, detail) ==
  [tbl EXCEPT ![order_no].stripe_session_id = session_id,
              ![order_no].order_detail = detail]

\* updateOrderStatus: sets status, paid_at, paid_email and paid_detail of
\* the row with this order_no.
updateOrderStatus(tbl, order_no, status, paid_at, paid_email, paid_detail) ==
  [tbl EXCEPT ![order_no].status = status,
              ![order_no].paid_at = <<paid_at>>,
              ![order_no].paid_email = paid_email,
              ![order_no].paid_detail = paid_detail]

\* findOrderByOrderNo: the order_no of the row, 0 when there is none.
findOrderByOrderNo(tbl, order_no) ==
  IF order_no \in DOMAIN tbl THEN order_no ELSE 0

\* findOrderBySessionId: the row whose stripe_session_id is this id, 0 when
\* there is none (the gateways' session ids are unique).
findOrderBySessionId(tbl, session_id) ==
  IF \E o \in DOMAIN tbl : tbl[o].stripe_session_id = session_id
  THEN CHOOSE o \in DOMAIN tbl : tbl[o].stripe_session_id = session_id
  ELSE 0

\* findOrderByEmailAndAmount: the rows of this e-mail and amount.
findOrderByEmailAndAmount(tbl, email, amount) ==
  { o \in DOMAIN tbl :
      /\ toLowerCase(tbl[o].user_email) = toLowerCase(email)
      /\ tbl[o].amount = amount }

\* -------------------------------------------------- payment-selector.ts
selectPaymentMethod(e) ==
  IF e.STRIPE_PRIVATE_KEY THEN "stripe"
  ELSE IF e.PAYPAL_CLIENT_ID /\ e.PAYPAL_CLIENT_SECRET THEN "paypal"
  ELSE IF e.CREEM_API_KEY \/ e.NEXT_PUBLIC_CREEM_PRODUCT_ID THEN "creem"
  ELSE ""

\* ------------------------------------------------- api/checkout/route.ts
\* ChoosePaymentMethod without the Creem default: selectPaymentMethod()
\* decides whenever the request names no method.
ChoosePaymentMethod_Auto(payment_method, e) ==
  IF payment_method # "" THEN payment_method ELSE selectPaymentMethod(e)

\* Step 2 of POST: the request's payment_method, else creem when Creem is
\* configured, else selectPaymentMethod(); "" when nothing is available.
ChoosePaymentMethod(payment_method, e) ==
  IF payment_method # "" THEN payment_method
  ELSE IF e.CREEM_API_KEY \/ e.NEXT_PUBLIC_CREEM_PRODUCT_ID THEN "creem"
  ELSE selectPaymentMethod(e)

ErrNoPaymentMethod ==
  "No payment method available. Please configure at least one payment gateway."

PricingItem(product_id) == { i \in PricingItems : i.product_id = product_id }

\* ValidateOrder without the checks of the interval and its months.
ValidateOrder_AnyInterval(req, caller) ==
  IF req.amount = 0 \/ req.interval = "" \/ req.currency = "" \/ req.product_id = ""
  THEN "invalid params"
  ELSE IF \A i \in PricingItem(req.product_id) :
            \/ i.amount = 0 \/ i.interval = "" \/ i.currency = ""
            \/ i.interval # req.interval
            \/ i.credits # req.credits
            \/ i.valid_months # req.valid_months
            \/ ~ IF req.currency = "cny" THEN i.cn_amount = req.amount
                 ELSE i.amount = req.amount /\ i.currency = req.currency
  THEN "invalid checkout params"
  ELSE IF caller.uuid = "" THEN "no auth, please sign-in"
  ELSE IF caller.session_email = "" /\ caller.db_email = "" THEN "invalid user"
  ELSE ""

\* ValidateOrder without the checks of the caller.
ValidateOrder_AnyCaller(req, caller) ==
  IF req.amount = 0 \/ req.interval = "" \/ req.currency = "" \/ req.product_id = ""
  THEN "invalid params"
  ELSE IF \A i \in PricingItem(req.product_id) :
            \/ i.amount = 0 \/ i.interval = "" \/ i.currency = ""
            \/ i.interval # req.interval
            \/ i.credits # req.credits
            \/ i.valid_months # req.valid_months
            \/ ~ IF req.currency = "cny" THEN i.cn_amount = req.amount
                 ELSE i.amount = req.amount /\ i.currency = req.currency
  THEN "invalid checkout params"
  ELSE IF req.interval \notin {"year", "month", "one-time"} THEN "invalid interval"
  ELSE IF req.interval = "year" /\ req.valid_months # 12 THEN "invalid valid_months"
  ELSE IF req.interval = "month" /\ req.valid_months # 1 THEN "invalid valid_months"
  ELSE ""

\* The checks of validateAndCreateOrder before the insert: the error thrown,
\* "" when the order is to be inserted.
ValidateOrder(req, caller) ==
  IF req.amount = 0 \/ req.interval = "" \/ req.currency = "" \/ req.product_id = ""
  THEN "invalid params"
  ELSE IF \A i \in PricingItem(req.product_id) :
            \/ i.amount = 0 \/ i.interval = "" \/ i.currency = ""
            \/ i.interval # req.interval
            \/ i.credits # req.credits
            \/ i.valid_months # req.valid_months
            \/ ~ IF req.currency = "cny" THEN i.cn_amount = req.amount
                 ELSE i.amount = req.amount /\ i.currency = req.currency
  THEN "invalid checkout params"
  ELSE IF req.interval \notin {"year", "month", "one-time"} THEN "invalid interval"
  ELSE IF req.interval = "year" /\ req.valid_months # 12 THEN "invalid valid_months"
  ELSE IF req.interval = "month" /\ req.valid_months # 1 THEN "invalid valid_months"
  ELSE IF caller.uuid = "" THEN "no auth, please sign-in"
  ELSE IF caller.session_email = "" /\ caller.db_email = "" THEN "invalid user"
  ELSE ""

\* The e-mail validateAndCreateOrder resolves: the session's, else the user
\* record's.
UserEmail(caller) ==
  IF caller.session_email # "" THEN caller.session_email ELSE caller.db_email

\* The row both checkout routes insert.
NewOrder(req, caller, credits, pay_type) ==
  [status |-> OrderStatusCreated, created_at |-> now,
   user_uuid |-> caller.uuid, user_email |-> UserEmail(caller),
   amount |-> req.amount, credits |-> credits, pay_type |-> pay_type,
   interval |-> req.interval, currency |-> req.currency,
   product_id |-> req.product_id, valid_months |-> req.valid_months,
   stripe_session_id |-> NoId, order_detail |-> NoDetail,
   paid_at |-> <<>>, paid_email |-> "", paid_detail |-> NoData]

\* The requests the clients send for the credits pack and the monthly
\* subscription: as listed or with an amount the table does not hold, with
\* each payment_method.
CheckoutRequests ==
  { [product_id |-> i.product_id, amount |-> a, currency |-> i.currency,
     interval |-> i.interval, credits |-> i.credits,
     valid_months |-> i.valid_months, payment_method |-> m] :
      i \in { j \in PricingItems : j.product_id \in {"basic", "monthly"} },
      a \in {10, 11},
      m \in {"", "stripe", "paypal", "creem", "alipay"} }

\* The request for a pricing item as the table lists it, priced in currency.
Listed(i, currency) ==
  [product_id |-> i.product_id,
   amount |-> IF currency = "cny" THEN i.cn_amount ELSE i.amount,
   currency |-> currency, interval |-> i.interval, credits |-> i.credits,
   valid_months |-> i.valid_months, payment_method |-> "stripe"]

\* The request r with one of its fields changed.
Altered(r) ==
  UNION { { [r EXCEPT !.amount = a] : a \in {0, r.amount + 1} },
          { [r EXCEPT !.currency = c] : c \in {"", "usd", "cny", "eur"} },
          { [r EXCEPT !.interval = v] : v \in {"", "one-time", "month", "year"} },
          { [r EXCEPT !.credits = n] : n \in {0, 100} },
          { [r EXCEPT !.valid_months = n] : n \in {0, 1, 12} },
          { [r EXCEPT !.product_id = id] : id \in {"", "none", "basic"} } }

\* The requests a client can build from the pricing table: each item as
\* listed, in either currency, or with one field changed.
PricedRequests ==
  UNION { {r} \cup Altered(r) :
            r \in { Listed(i, c) : i \in PricingItems, c \in {"usd", "cny"} } }

\* The requests of the pricing page's buttons.
PricingRequests ==
  { r \in CheckoutRequests :
      /\ r.payment_method \in {"stripe", "paypal", "creem"}
      /\ \E i \in PricingItem(r.product_id) : i.amount = r.amount }

\* POST /api/checkout from the choice of the method to the response: the
\* error ("" for none), the method, the orders table and PayPal's state of
\* the new order.  gw_ok: the gateway's API call succeeds.
CheckoutOutcome(req, caller, gw_ok) ==
  LET pm == ChoosePaymentMethod(req.payment_method, env)
      verr == ValidateOrder(req, caller)
      o == Len(orders) + 1
      inserted == insertOrder(orders, NewOrder(req, caller, req.credits, pm))
      out(err, tbl, pp) ==
        [err |-> err, payment_method |-> pm, orders |-> tbl, paypal |-> pp]
  IN
  IF pm = "" THEN out(ErrNoPaymentMethod, orders, "none")
  ELSE IF verr # "" THEN out(verr, orders, "none")
  ELSE IF pm = "stripe" THEN
    IF ~env.STRIPE_PRIVATE_KEY
    THEN out("STRIPE_PRIVATE_KEY is not configured", inserted, "none")
    ELSE IF ~gw_ok THEN out("checkout failed", inserted, "none")
    ELSE out("", updateOrderSession(inserted, o, StripeId(o),
                   [NoDetail EXCEPT !.kind = "stripe"]), "none")
  ELSE IF pm = "paypal" THEN
    IF ~(env.PAYPAL_CLIENT_ID /\ env.PAYPAL_CLIENT_SECRET /\ gw_ok)
    THEN out("checkout failed", inserted, "none")
    ELSE out("", updateOrderSession(inserted, o, PayPalId(o),
                   [NoDetail EXCEPT !.kind = "paypal", !.amount = req.amount,
                                    !.user_email = UserEmail(caller)]), "created")
  ELSE IF pm = "creem" THEN out("", inserted, "none")
  ELSE out("Unsupported payment method", inserted, "none")

\* What createCreemCheckoutSession, or the product link, gives: no session
\* (the API call failed), or a checkout_url that holds or does not hold the
\* id Creem later reports as object.order.id.
CreemSessions == {"failed", "url", "url_with_order_id"}

\* POST /api/checkout/creem from the validation to the response.
CreemCheckoutOutcome(req, caller, session) ==
  LET expected == IF PricingItem(req.product_id) = {} THEN 0
                  ELSE (CHOOSE i \in PricingItem(req.product_id) : TRUE).credits
      credits == IF req.credits = 0 /\ expected > 0 THEN expected ELSE req.credits
      verr == ValidateOrder([req EXCEPT !.credits = credits], caller)
      o == Len(orders) + 1
      inserted == insertOrder(orders, NewOrder(req, caller, credits, ""))
      detail == [NoDetail EXCEPT !.kind = "creem",
                   !.url_ids = IF session = "url_with_order_id"
                               THEN {CreemOrderId(o)} ELSE {}]
      out(err, tbl) ==
        [err |-> err, payment_method |-> "creem", orders |-> tbl, paypal |-> "none"]
  IN
  IF verr # "" THEN out(verr, orders)
  ELSE IF session = "failed" THEN out("Failed to create Creem checkout", inserted)
  ELSE out("", updateOrderSession(inserted, o, CreemSessionId(o), detail))

\* A checkout request with outcome r is served; the response is recorded
\* when rec is set.
Served(route, req, r, rec) ==
  /\ Len(orders) < MaxOrders
  /\ orders' = r.orders
  /\ calls' = IF Len(r.orders) > Len(orders) THEN Append(calls, NoCalls) ELSE calls
  /\ paypal' = IF Len(r.orders) > Len(orders) THEN Append(paypal, r.paypal) ELSE paypal
  /\ lastCheckout' =
       IF rec THEN [route |-> route, requested |-> req.payment_method,
                    err |-> r.err, payment_method |-> r.payment_method,
                    inserted |-> Len(r.orders) - Len(orders)]
       ELSE lastCheckout
  /\ UNCHANGED <<env, now, proc>>

Checkout(reqs, callers, gws, rec) ==
  \E req \in reqs, caller \in callers, gw_ok \in gws :
    Served("checkout", req, CheckoutOutcome(req, caller, gw_ok), rec)

CreemCheckout(reqs, callers, sessions, rec) ==
  \E req \in reqs, caller \in callers, session \in sessions :
    Served("creem", req, CreemCheckoutOutcome(req, caller, session), rec)

\* ------------------------------------------- usePayment.processPayment
\* What the client holds before its first purchase attempt: no response,
\* no params.
NoAttempt ==
  [route |-> "none", requested |-> "", err |-> "", payment_method |-> "",
   inserted |-> 0, params |-> [product_id |-> ""],
   caller |-> [uuid |-> "", session_email |-> "", db_email |-> ""],
   order_no |-> 0, rows |-> 0]

\* The params processPayment builds for a pricing item, the cn_pay flag and
\* the payment method chosen.
PaymentParams(item, cn_pay, paymentMethod) ==
  [Listed(item, IF cn_pay THEN "cny" ELSE item.currency)
     EXCEPT !.payment_method = paymentMethod]

\* processPayment posts its params to /api/checkout and keeps the
\* response: its order_no, and the rows this attempt has inserted.
PostCheckout(items, callers) ==
  \E item \in items, cn_pay \in BOOLEAN,
     paymentMethod \in {"stripe", "paypal", "creem"}, caller \in callers :
    LET params == PaymentParams(item, cn_pay, paymentMethod)
        r == CheckoutOutcome(params, caller, TRUE)
        n == Len(r.orders) - Len(orders)
    IN
    /\ Len(orders) < MaxOrders
    /\ orders' = r.orders
    /\ calls' = IF n > 0 THEN Append(calls, NoCalls) ELSE calls
    /\ paypal' = IF n > 0 THEN Append(paypal, r.paypal) ELSE paypal
    /\ lastCheckout' =
         [route |-> "checkout", requested |-> paymentMethod, err |-> r.err,
          payment_method |-> r.payment_method, inserted |-> n,
          params |-> params, caller |-> caller,
          order_no |-> IF r.err = "" THEN Len(orders) + 1 ELSE 0,
          rows |-> n]
    /\ UNCHANGED <<env, now, proc>>

\* The response of /api/checkout was redirect_to_creem: processPayment
\* posts the same params to /api/checkout/creem.
PostCreem(sessions) ==
  \E session \in sessions :
    LET r == CreemCheckoutOutcome(lastCheckout.params, lastCheckout.caller, session)
        n == Len(r.orders) - Len(orders)
    IN
    /\ lastCheckout.route = "checkout"
    /\ lastCheckout.err = ""
    /\ lastCheckout.payment_method = "creem"
    /\ Len(orders) < MaxOrders
    /\ orders' = r.orders
    /\ calls' = IF n > 0 THEN Append(calls, NoCalls) ELSE calls
    /\ paypal' = IF n > 0 THEN Append(paypal, r.paypal) ELSE paypal
    /\ lastCheckout' =
         [lastCheckout EXCEPT !.route = "creem", !.err = r.err, !.inserted = n,
                              !.order_no = IF r.err = "" THEN Len(orders) + 1 ELSE 0,
                              !.rows = @ + n]
    /\ UNCHANGED <<env, now, proc>>

\* ------------------------------------------ pay-success/paypal/page.tsx
\* The buyer approves the PayPal order on PayPal's page.
Approve(o) ==
  /\ o \in DOMAIN orders
  /\ paypal[o] = "created"
  /\ paypal' = [paypal EXCEPT ![o] = "approved"]
  /\ UNCHANGED <<env, now, orders, calls, proc, lastCheckout>>

\* capturePayPalOrder's effect at PayPal: an approved order is captured;
\* for any other id the call throws and nothing changes.
capturePayPalOrder(pp, session_id) ==
  [o \in DOMAIN pp |->
     IF session_id = PayPalId(o) /\ pp[o] = "approved" THEN "captured" ELSE pp[o]]

\* A pay-success page that marks the order paid once it has called capture.
PaySuccessOrders_MarkPaid(tbl, order_no) ==
  [tbl EXCEPT ![order_no].status = OrderStatusPaid]

\* What the pay-success page writes to the orders table: nothing, the
\* webhook is left to mark the order paid.
PaySuccessOrders(tbl, order_no) == tbl

\* The PayPal pay-success page, visited with ?order_no=: a created order
\* with a stored session id is captured.
PaySuccessPage(order_no) ==
  LET o == findOrderByOrderNo(orders, order_no) IN
  /\ o # 0
  /\ orders[o].status = OrderStatusCreated
  /\ orders[o].stripe_session_id # NoId
  /\ paypal' = capturePayPalOrder(paypal, orders[o].stripe_session_id)
  /\ orders' = PaySuccessOrders(orders, o)
  /\ UNCHANGED <<env, now, calls, proc, lastCheckout>>

\* ------------------------------------------------ webhook notifications
\* A handler invocation that threw.  no_id: the payload carried no usable
\* order identifier; fallback: a created order of the payload's e-mail and
\* amount existed.
Failed(kind, no_id, fallback) ==
  [IdleProc EXCEPT !.pc = "failed", !.kind = kind, !.no_id = no_id,
                   !.fallback = fallback]

\* A handler invocation that returned without touching any order.
Returned(kind, no_id, fallback) ==
  [IdleProc EXCEPT !.pc = "done", !.kind = kind, !.no_id = no_id,
                   !.fallback = fallback]

\* A handler invocation that returned because order_no was no longer created.
Skipped(kind, order_no, no_id, fallback) ==
  [IdleProc EXCEPT !.pc = "done", !.kind = kind, !.order_no = order_no,
                   !.path = "skipped", !.no_id = no_id, !.fallback = fallback]

\* A handler invocation about to call updateOrderStatus for order_no.
Matched(kind, data, path, order_no, paid_email, no_id) ==
  [IdleProc EXCEPT !.pc = "status", !.kind = kind, !.data = data,
                   !.order_no = order_no, !.paid_email = paid_email,
                   !.path = path, !.no_id = no_id]

\* A created order has the e-mail (in any case) and the amount of the payload.
HasFallback(tbl, email, amount) ==
  \E o \in DOMAIN tbl :
    /\ tbl[o].status = OrderStatusCreated
    /\ email # ""
    /\ toLowerCase(tbl[o].user_email) = toLowerCase(email)
    /\ tbl[o].amount = amount

\* Stripe checkout sessions: metadata.order_no (0: none), payment_status,
\* customer_details.email, customer_email and amount_total.
StripeSession(n, st, e1, e2) ==
  [gateway |-> "stripe", order_no |-> n, payment_status |-> st,
   customer_details_email |-> e1, customer_email |-> e2, amount_total |-> 10]

StripeSessions ==
  { StripeSession(0, "paid", "a@x.io", "") }
  \cup { StripeSession(n, "paid", "", "b@x.io") : n \in 1..(MaxOrders + 1) }
  \cup { StripeSession(1, "unpaid", "", "") }

\* handleOrderSession with a fallback: a session without metadata.order_no
\* is matched to a created order by e-mail and amount.
handleOrderSession_Fallback(tbl, session) ==
  LET paid_email == IF session.customer_details_email # ""
                    THEN session.customer_details_email ELSE session.customer_email
      order == findOrderByOrderNo(tbl, session.order_no)
      fb == HasFallback(tbl, paid_email, session.amount_total)
      hits == { o \in DOMAIN tbl :
                  /\ tbl[o].status = OrderStatusCreated
                  /\ toLowerCase(tbl[o].user_email) = toLowerCase(paid_email)
                  /\ tbl[o].amount = session.amount_total }
  IN
  IF session.payment_status # "paid" THEN { Failed("stripe", session.order_no = 0, fb) }
  ELSE IF session.order_no = 0
  THEN IF hits = {} THEN { Failed("stripe", TRUE, fb) }
       ELSE { Matched("stripe", session, "email", o, paid_email, TRUE) : o \in hits }
  ELSE IF order = 0 \/ tbl[order].status # OrderStatusCreated
  THEN { Failed("stripe", FALSE, fb) }
  ELSE { Matched("stripe", session, "id", order, paid_email, FALSE) }

\* handleOrderSession up to its lookup (order.ts 47-64).
handleOrderSession(tbl, session) ==
  LET paid_email == IF session.customer_details_email # ""
                    THEN session.customer_details_email ELSE session.customer_email
      order == findOrderByOrderNo(tbl, session.order_no)
      fb == HasFallback(tbl, paid_email, session.amount_total)
  IN
  IF session.order_no = 0 \/ session.payment_status # "paid"
  THEN { Failed("stripe", session.order_no = 0, fb) }
  ELSE IF order = 0 \/ tbl[order].status # OrderStatusCreated
  THEN { Failed("stripe", FALSE, fb) }
  ELSE { Matched("stripe", session, "id", order, paid_email, FALSE) }

\* PayPal webhook events: event_type and type, and the resource with
\* supplementary_data.related_ids.order_id, order_id, payer.email_address
\* and amount.
PayPalEventTypes ==
  { <<"", "">>, <<"PAYMENT.CAPTURE.COMPLETED", "">>, <<"PAYMENT.SALE.COMPLETED", "">>,
    <<"CHECKOUT.ORDER.APPROVED", "">>, <<"PAYMENT.CAPTURE.DENIED", "">>,
    <<"", "PAYMENT.SALE.COMPLETED">>, <<"", "CHECKOUT.ORDER.APPROVED">> }

PayPalResource(rel, oid, email, amount) ==
  [gateway |-> "paypal", related_order_id |-> rel, order_id |-> oid,
   payer_email |-> email, amount |-> amount]

PayPalResources ==
  { PayPalResource(NoId, NoId, "a@x.io", 10),
    PayPalResource(NoId, PayPalId(1), "a@x.io", 10),
    PayPalResource(PayPalId(MaxOrders), PayPalId(1), "", 0) }
  \cup { PayPalResource(PayPalId(o), NoId, "", 0) : o \in 1..(MaxOrders + 1) }

\* parsePayPalWebhookEvent: the event's type.
parsePayPalWebhookEvent(event_type, type) ==
  IF event_type # "" THEN event_type
  ELSE IF type # "" THEN type
  ELSE "PAYMENT.CAPTURE.COMPLETED"

\* handlePayPalOrder without its check of the order's status.
handlePayPalOrder_Unchecked(tbl, data) ==
  LET paypalOrderId == IF data.related_order_id # NoId
                       THEN data.related_order_id ELSE data.order_id
      order == findOrderBySessionId(tbl, paypalOrderId)
      paid_email == IF data.payer_email # "" THEN data.payer_email
                    ELSE tbl[order].user_email
      fb == HasFallback(tbl, data.payer_email, data.amount)
  IN
  IF paypalOrderId = NoId THEN { Failed("paypal", TRUE, fb) }
  ELSE IF order = 0 THEN { Failed("paypal", FALSE, fb) }
  ELSE { Matched("paypal", data, "id", order, paid_email, FALSE) }

\* handlePayPalOrder up to its status check (order.ts 490-535).
handlePayPalOrder(tbl, data) ==
  LET paypalOrderId == IF data.related_order_id # NoId
                       THEN data.related_order_id ELSE data.order_id
      order == findOrderBySessionId(tbl, paypalOrderId)
      paid_email == IF data.payer_email # "" THEN data.payer_email
                    ELSE tbl[order].user_email
      fb == HasFallback(tbl, data.payer_email, data.amount)
  IN
  IF paypalOrderId = NoId THEN { Failed("paypal", TRUE, fb) }
  ELSE IF order = 0 THEN { Failed("paypal", FALSE, fb) }
  ELSE IF tbl[order].status # OrderStatusCreated
  THEN { Skipped("paypal", order, FALSE, fb) }
  ELSE { Matched("paypal", data, "id", order, paid_email, FALSE) }

\* A route that also treats the buyer's approval as a payment.
PayPalRouteHandles_Approved(type) ==
  type \in {"PAYMENT.CAPTURE.COMPLETED", "PAYMENT.SALE.COMPLETED",
            "CHECKOUT.ORDER.APPROVED"}

\* Which event types the PayPal route hands to handlePayPalOrder.
PayPalRouteHandles(type) ==
  type \in {"PAYMENT.CAPTURE.COMPLETED", "PAYMENT.SALE.COMPLETED"}

\* POST /api/paypal-notify up to the handler's lookup.
PayPalNotify(e, tbl, event_type, type, data) ==
  IF ~(e.PAYPAL_CLIENT_ID /\ e.PAYPAL_CLIENT_SECRET)
  THEN { Failed("paypal", FALSE, FALSE) }
  ELSE IF PayPalRouteHandles(parsePayPalWebhookEvent(event_type, type))
  THEN handlePayPalOrder(tbl, data)
  ELSE { Returned("paypal", FALSE, FALSE) }

\* ----------------------------------------------------- handleCreemOrder
\* A Creem payload with nothing set.  obj_ stands for data.object, md_ for
\* metadata: obj_order_md_order_no is data.object.order.metadata.order_no.
CreemEmpty ==
  [gateway |-> "creem",
   request_id |-> 0, obj_request_id |-> 0, order_no |-> 0, order_id |-> 0,
   md_order_no |-> 0, md_order_id |-> 0, obj_md_order_no |-> 0,
   obj_md_order_id |-> 0, obj_order_md_order_no |-> 0, obj_order_md_order_id |-> 0,
   obj_order_id |-> NoId,
   obj_order_status |-> "", status |-> "", payment_status |-> "",
   obj_order_customer_email |-> "", obj_customer_email |-> "",
   obj_customer_email_flat |-> "", customer_email |-> "", email |-> "",
   md_user_email |-> "",
   obj_order_amount |-> 0, obj_order_amount_paid |-> 0, amount |-> 0]

\* a || b || ... for numbers and for strings: the first truthy value.
FirstNumber(xs) ==
  IF \E i \in DOMAIN xs : xs[i] # 0
  THEN xs[CHOOSE i \in DOMAIN xs : xs[i] # 0 /\ \A j \in 1..(i - 1) : xs[j] = 0]
  ELSE 0

FirstString(xs) ==
  IF \E i \in DOMAIN xs : xs[i] # ""
  THEN xs[CHOOSE i \in DOMAIN xs : xs[i] # "" /\ \A j \in 1..(i - 1) : xs[j] = ""]
  ELSE ""

\* ExtractOrderNo with the metadata fields before request_id.
ExtractOrderNo_MetadataFirst(d) ==
  FirstNumber(<<d.md_order_no, d.md_order_id, d.request_id, d.obj_request_id,
                d.order_no, d.order_id, d.obj_md_order_no, d.obj_md_order_id,
                d.obj_order_md_order_no, d.obj_order_md_order_id>>)

\* The order number of a payload (order.ts 137-148), 0 for "".
ExtractOrderNo(d) ==
  FirstNumber(<<d.request_id, d.obj_request_id, d.order_no, d.order_id,
                d.md_order_no, d.md_order_id, d.obj_md_order_no, d.obj_md_order_id,
                d.obj_order_md_order_no, d.obj_order_md_order_id>>)

\* webhookAmount and webhookEmail of the scans (order.ts 192-197, 329).
WebhookAmount(d) == FirstNumber(<<d.obj_order_amount, d.amount>>)
WebhookEmail(d) == FirstString(<<d.obj_customer_email, d.customer_email, d.email>>)

\* customerEmail and amount of the e-mail match (order.ts 248-260).
CustomerEmail(d) ==
  FirstString(<<d.obj_order_customer_email, d.obj_customer_email,
                d.customer_email, d.email>>)
CustomerAmount(d) ==
  FirstNumber(<<d.obj_order_amount, d.obj_order_amount_paid, d.amount>>)

\* paymentStatus (order.ts 371-375) and the statuses that count as paid.
PaymentStatus(d) == FirstString(<<d.obj_order_status, d.status, d.payment_status>>)
IsPaidStatus(st) == st \in {"paid", "succeeded", "completed"}

\* paid_email (order.ts 384-391).
CreemPaidEmail(d) ==
  FirstString(<<d.obj_order_customer_email, d.obj_customer_email,
                d.obj_customer_email_flat, d.customer_email, d.email,
                d.md_user_email>>)

Max(S) == CHOOSE x \in S : \A y \in S : y <= x

\* RecentCreated without the condition on created_at.
RecentCreated_AnyAge(tbl, t, limit) ==
  LET C == { o \in DOMAIN tbl : tbl[o].status = OrderStatusCreated }
  IN { o \in C : Cardinality({ q \in C : q > o }) < limit }

\* The rows a scan reads: created, created within the last 24 hours, newest
\* first, at most limit of them.
RecentCreated(tbl, t, limit) ==
  LET C == { o \in DOMAIN tbl : /\ tbl[o].status = OrderStatusCreated
                                /\ tbl[o].created_at >= t - Day }
  IN { o \in C : Cardinality({ q \in C : q > o }) < limit }

\* The scan for the Creem order id (order.ts 168-241): the newest row whose
\* order_detail names the id or whose amount and e-mail fit; 0 for none.
MatchesCreemOrder(row, d) ==
  LET detail == row.order_detail
      orderAmount == IF detail.amount # 0 THEN detail.amount ELSE row.amount
      orderEmail == IF detail.user_email # "" THEN detail.user_email ELSE row.user_email
  IN
  /\ detail.kind # "none"
  /\ \/ detail.creem_order_id = d.obj_order_id
     \/ d.obj_order_id \in detail.url_ids
     \/ /\ WebhookAmount(d) > 0
        /\ WebhookEmail(d) # ""
        /\ Abs(orderAmount - WebhookAmount(d)) <= 1
        /\ orderEmail # ""
        /\ toLowerCase(orderEmail) = toLowerCase(WebhookEmail(d))

ScanByCreemOrderId(tbl, t, d) ==
  LET hits == { o \in RecentCreated(tbl, t, ScanLimitCreemId) :
                  MatchesCreemOrder(tbl[o], d) }
  IN IF hits = {} THEN 0 ELSE Max(hits)

\* The last scan (order.ts 325-359): the newest row within 1 of the amount.
MatchesAmount(row, d) == Abs(row.amount - WebhookAmount(d)) <= 1

ScanByAmount(tbl, t, d) ==
  LET hits == { o \in RecentCreated(tbl, t, ScanLimitAmount) :
                  MatchesAmount(tbl[o], d) }
  IN IF WebhookAmount(d) > 0 /\ hits # {} THEN Max(hits) ELSE 0

\* order.ts 369-415: the payment status is checked, the order is looked up
\* when no scan found it, and an order no longer created is skipped.
CreemStatusCheck(tbl, d, order_no, order, path, no_id) ==
  LET found == IF order # 0 THEN order ELSE findOrderByOrderNo(tbl, order_no)
      fb == HasFallback(tbl, CustomerEmail(d), CustomerAmount(d))
  IN
  IF ~IsPaidStatus(PaymentStatus(d)) THEN { Returned("creem", no_id, fb) }
  ELSE IF found = 0 THEN { Failed("creem", no_id, fb) }
  ELSE IF tbl[found].status # OrderStatusCreated
  THEN { Skipped("creem", found, no_id, fb) }
  ELSE { Matched("creem", d, path, found, CreemPaidEmail(d), no_id) }

\* order.ts 325-367 and on: the last scan, then the error or the status check.
CreemLastResort(tbl, t, d) ==
  LET order == ScanByAmount(tbl, t, d)
      fb == HasFallback(tbl, CustomerEmail(d), CustomerAmount(d))
  IN IF order = 0 THEN { Failed("creem", TRUE, fb) }
     ELSE CreemStatusCheck(tbl, d, order, order, "amount", TRUE)

\* order.ts 268-323: the row findOrderByEmailAndAmount returns is marked
\* paid when it is created; otherwise the last scan runs.
CreemEmailMatch(tbl, t, d) ==
  LET found == findOrderByEmailAndAmount(tbl, CustomerEmail(d), CustomerAmount(d))
  IN
  IF CustomerEmail(d) # "" /\ CustomerAmount(d) > 0 /\ found # {}
  THEN UNION { IF tbl[m].status = OrderStatusCreated
               THEN { Matched("creem", d, "email", m, CustomerEmail(d), TRUE) }
               ELSE CreemLastResort(tbl, t, d) : m \in found }
  ELSE CreemLastResort(tbl, t, d)

\* handleCreemOrder up to its call of updateOrderStatus.
handleCreemOrder(tbl, t, d) ==
  LET order_no == ExtractOrderNo(d)
      scanned == IF order_no = 0 /\ d.obj_order_id # NoId
                 THEN ScanByCreemOrderId(tbl, t, d) ELSE 0
  IN
  IF order_no # 0 THEN CreemStatusCheck(tbl, d, order_no, 0, "id", FALSE)
  ELSE IF scanned # 0 THEN CreemStatusCheck(tbl, d, scanned, scanned, "creem_id", TRUE)
  ELSE CreemEmailMatch(tbl, t, d)

\* The Creem payloads delivered: with an order number, with a Creem order
\* id, with e-mail and amount only, with nothing.
CreemPayloads ==
  { [CreemEmpty EXCEPT !.request_id = n, !.obj_order_status = "paid",
                       !.customer_email = "A@x.io"] : n \in 1..(MaxOrders + 1) }
  \cup { [CreemEmpty EXCEPT !.obj_order_id = CreemOrderId(o), !.status = "succeeded"] :
           o \in OrderNos }
  \cup { [CreemEmpty EXCEPT !.obj_order_customer_email = "A@x.io",
                            !.obj_order_amount = 10, !.obj_order_status = st] :
           st \in {"paid", "pending"} }
  \cup { [CreemEmpty EXCEPT !.md_order_no = 1, !.status = "pending"],
         [CreemEmpty EXCEPT !.obj_order_id = CreemOrderId(MaxOrders + 1),
                            !.status = "completed", !.email = "a@x.io", !.amount = 11],
         [CreemEmpty EXCEPT !.obj_order_customer_email = "b@x.io",
                            !.obj_order_amount = 11, !.obj_order_status = "paid"],
         [CreemEmpty EXCEPT !.payment_status = "paid", !.obj_order_amount_paid = 10] }

\* ------------------------------------------------------ services/creem.ts
\* crypto.createHmac("sha256", secret).update(body).digest("hex"): another
\* key or another body gives another digest.
HmacSha256(secret, body) == <<secret, body>>

\* verifyCreemWebhookSignature: the signature, an algorithm prefix "x="
\* dropped, decodes to the bytes of the body's HMAC-SHA256 under secret
\* (digest <<>>: a text that decodes to no bytes).
verifyCreemWebhookSignature(body, signature, secret) ==
  IF ~signature.present \/ secret = "" THEN FALSE
  ELSE signature.digest = HmacSha256(secret, body)

\* parseCreemWebhookEvent without the default: an event that names no type
\* and no status is payment.unknown.
parseCreemWebhookEvent_NoDefault(e) ==
  LET status == toLowerCase(e.top.status) IN
  IF e.type # ""
  THEN [type |-> e.type, data |-> IF e.has_data THEN e.data ELSE e.top]
  ELSE IF e.event # "" THEN [type |-> e.event, data |-> e.top]
  ELSE IF e.top.status # ""
  THEN [type |-> IF status \in {"paid", "succeeded", "completed"}
                 THEN "payment.succeeded"
                 ELSE IF status = "failed" THEN "payment.failed"
                 ELSE "payment.unknown",
        data |-> e.top]
  ELSE [type |-> "payment.unknown", data |-> e.top]

\* parseCreemWebhookEvent: the event's type and the data handed on.  e.top:
\* the top-level fields of the JSON object; e.data: its data field when
\* e.has_data.
parseCreemWebhookEvent(e) ==
  LET status == toLowerCase(e.top.status) IN
  IF e.type # ""
  THEN [type |-> e.type, data |-> IF e.has_data THEN e.data ELSE e.top]
  ELSE IF e.event # "" THEN [type |-> e.event, data |-> e.top]
  ELSE IF e.top.status # ""
  THEN [type |-> IF status \in {"paid", "succeeded", "completed"}
                 THEN "payment.succeeded"
                 ELSE IF status = "failed" THEN "payment.failed"
                 ELSE "payment.unknown",
        data |-> e.top]
  ELSE [type |-> "payment.succeeded", data |-> e.top]

\* ------------------------------------ Creem webhook route (POST handler)
\* The response of the route when handleCreemOrder is not called: err ""
\* is respOk().
Answered(err) ==
  [IdleProc EXCEPT !.pc = "done", !.kind = "creem-route", !.err = err]

\* The event types the route hands to handleCreemOrder.
CreemPaidTypes ==
  {"payment.succeeded", "payment.success", "checkout.completed", "charge.succeeded"}

\* POST up to the first await of handleCreemOrder, or to the response.
CreemRoute(tbl, t, req) ==
  IF req.secret = "" THEN { Answered("webhook secret not configured") }
  ELSE IF req.body.kind = "empty" THEN { Answered("invalid request body") }
  ELSE IF /\ req.signature.present
          /\ ~verifyCreemWebhookSignature(req.body, req.signature, req.secret)
  THEN { Answered("invalid signature") }
  ELSE IF req.body.kind # "json" THEN { Answered("invalid json body") }
  ELSE IF parseCreemWebhookEvent(req.body).type \in CreemPaidTypes
  THEN handleCreemOrder(tbl, t, parseCreemWebhookEvent(req.body).data)
  ELSE { Answered("") }

\* The payment the events of the model report: order 1, paid.
CreemPayment ==
  [CreemEmpty EXCEPT !.request_id = 1, !.obj_order_status = "paid",
                     !.customer_email = "A@x.io"]

\* The JSON bodies sent: {type, data}, {type, ...}, {event, ...},
\* {status, ...} and an object with none of the three.
CreemEventTypes ==
  CreemPaidTypes \cup {"payment.failed", "charge.failed", "subscription.created",
                       "subscription.updated", "refund.created"}

CreemEvents ==
  { [kind |-> "json", type |-> t, event |-> "", has_data |-> h,
     data |-> IF h THEN CreemPayment ELSE NoData,
     top |-> IF h THEN CreemEmpty ELSE CreemPayment] :
      t \in CreemEventTypes, h \in BOOLEAN }
  \cup { [kind |-> "json", type |-> "", event |-> t, has_data |-> FALSE,
          data |-> NoData, top |-> CreemPayment] : t \in CreemEventTypes }
  \cup { [kind |-> "json", type |-> "", event |-> "", has_data |-> FALSE,
          data |-> NoData, top |-> [CreemPayment EXCEPT !.status = st]] :
            st \in {"", "paid", "succeeded", "completed", "failed", "pending", "PAID"} }

\* The requests sent to the route: every event signed by Creem, and some
\* bodies unsigned, signed with another key, signed for another body, with
\* a signature that is no hex text, or received while no secret is set.
CreemBodies == { [kind |-> "empty"], [kind |-> "text"] } \cup CreemEvents

SignedBy(key, body, prefix) ==
  [present |-> TRUE, prefix |-> prefix, digest |-> HmacSha256(key, body)]

CreemRequests ==
  { [secret |-> "whsec", signature |-> SignedBy("whsec", b, ""), body |-> b] :
      b \in CreemBodies }
  \cup UNION { { [secret |-> k, signature |-> sig, body |-> b] :
                   k \in {"", "whsec"},
                   sig \in { NoSignature, SignedBy("whsec", b, "sha256="),
                             SignedBy("other", b, ""),
                             SignedBy("whsec", [kind |-> "text"], ""),
                             [present |-> TRUE, prefix |-> "", digest |-> <<>>] } } :
                 b \in { e \in CreemBodies :
                           e.kind = "json" =>
                             e.type = "payment.succeeded" /\ e.has_data } }

\* The fields of a payload that can hold the order number.
OrderNoFields ==
  <<"request_id", "obj_request_id", "order_no", "order_id", "md_order_no",
    "md_order_id", "obj_md_order_no", "obj_md_order_id",
    "obj_order_md_order_no", "obj_order_md_order_id">>

\* Payloads of the buyer A@x.io paying 10 that hold order numbers: 1 in one
\* field and 2 in the next, or a number no order has in one field, paid or
\* pending.
NumberedPayloads ==
  LET base(st) == [CreemEmpty EXCEPT !.obj_order_status = st,
                                     !.obj_order_customer_email = "A@x.io",
                                     !.obj_order_amount = 10]
  IN
  { [base("paid") EXCEPT ![OrderNoFields[i]] = 1, ![OrderNoFields[i + 1]] = 2] :
      i \in 1..(Len(OrderNoFields) - 1) }
  \cup { [base(st) EXCEPT ![OrderNoFields[i]] = MaxOrders + 1] :
           st \in {"paid", "pending"}, i \in {1, Len(OrderNoFields)} }

\* Those payloads as events signed by Creem.
NumberedRequests ==
  { [secret |-> "whsec", signature |-> SignedBy("whsec", b, ""), body |-> b] :
      b \in { [kind |-> "json", type |-> "payment.succeeded", event |-> "",
               has_data |-> TRUE, data |-> d, top |-> CreemEmpty] :
                d \in NumberedPayloads } }

\* Payloads without order number: with the Creem order id of order 1, with
\* an unknown Creem order id and the e-mail of a buyer and an amount within
\* 1 of the credits pack's, and with that amount only.
ScanPayloads ==
  { [CreemEmpty EXCEPT !.obj_order_id = CreemOrderId(1), !.status = "succeeded"],
    [CreemEmpty EXCEPT !.obj_order_id = CreemOrderId(0), !.status = "completed",
                       !.email = "a@x.io", !.amount = 9],
    [CreemEmpty EXCEPT !.obj_order_amount = 9, !.obj_order_status = "paid"] }

\* ---------------------------------------------------- handler invocations
InFlight(q) == proc[q].pc \in {"status", "credit", "affiliate", "email"}

\* An invocation may start on a free slot; serially, only when no other
\* invocation is under way.
CanStart(p, serial) ==
  /\ ~InFlight(p)
  /\ serial => (p = 1 /\ \A q \in Procs : ~InFlight(q))

\* What is kept of an invocation: all of it while it runs; once it has
\* returned or thrown, its outcome only where the outcomes are observed.
Kept(r, obs) == IF obs \/ r.pc = "status" THEN r ELSE IdleProc

StripeWebhook(p, c) ==
  /\ CanStart(p, c.serial)
  /\ \E session \in c.stripe :
       \E r \in handleOrderSession(orders, session) :
         proc' = [proc EXCEPT ![p] = Kept(r, c.obs)]
  /\ UNCHANGED <<env, now, orders, calls, paypal, lastCheckout>>

PayPalWebhook(p, c) ==
  /\ CanStart(p, c.serial)
  /\ \E t \in c.types, data \in c.resources :
       \E r \in PayPalNotify(env, orders, t[1], t[2], data) :
         proc' = [proc EXCEPT ![p] = Kept([r EXCEPT !.event = t], c.obs)]
  /\ UNCHANGED <<env, now, orders, calls, paypal, lastCheckout>>

CreemWebhook(p, c) ==
  /\ CanStart(p, c.serial)
  /\ \E d \in c.creem :
       \E r \in handleCreemOrder(orders, now, d) :
         proc' = [proc EXCEPT ![p] = Kept(r, c.obs)]
  /\ UNCHANGED <<env, now, orders, calls, paypal, lastCheckout>>

\* A request arrives at the Creem webhook route.
CreemNotify(p, c) ==
  /\ CanStart(p, c.serial)
  /\ \E req \in c.requests :
       \E r \in CreemRoute(orders, now, req) :
         proc' = [proc EXCEPT ![p] = Kept([r EXCEPT !.request = req], c.obs)]
  /\ UNCHANGED <<env, now, orders, calls, paypal, lastCheckout>>

\* The step after updateOrderStatus: credits and affiliate only for an
\* order with a user_uuid, credits only when the order has some.
AfterStatus(order, paid_email) ==
  IF order.user_uuid # ""
  THEN IF order.credits > 0 THEN "credit" ELSE "affiliate"
  ELSE IF paid_email # "" THEN "email" ELSE "done"

\* The invocation moves on to pc; a finished one is kept as Kept says.
Goto(p, pc, c) ==
  proc' = [proc EXCEPT ![p] =
             IF pc \in {"done", "failed"}
             THEN Kept([IdleProc EXCEPT !.pc = pc, !.kind = proc[p].kind,
                                        !.event = proc[p].event,
                                        !.request = proc[p].request], c.obs)
             ELSE [proc[p] EXCEPT !.pc = pc,
                                  !.data = IF proc[p].path = "email" /\ pc = "credit"
                                           THEN @ ELSE NoData]]

\* await updateOrderStatus(order_no, OrderStatus.Paid, paid_at, paid_email,
\* paid_detail)
UpdateStatus(p, c) ==
  LET o == proc[p].order_no IN
  /\ proc[p].pc = "status"
  /\ orders' = updateOrderStatus(orders, o, OrderStatusPaid, now,
                                 proc[p].paid_email, proc[p].data)
  /\ calls' = [calls EXCEPT ![o].status = @ + 1]
  /\ Goto(p, AfterStatus(orders[o], proc[p].paid_email), c)
  /\ UNCHANGED <<env, now, paypal, lastCheckout>>

\* await updateCreditForOrder(order)
UpdateCredit(p, c) ==
  LET o == proc[p].order_no IN
  /\ proc[p].pc = "credit"
  /\ calls' = [calls EXCEPT ![o].credit = @ + 1]
  /\ Goto(p, "affiliate", c)
  /\ UNCHANGED <<env, now, orders, paypal, lastCheckout>>

\* updateCreditForOrder throws: the handler rethrows; on the e-mail path of
\* handleCreemOrder the throw is caught (order.ts 313-315) and the last scan
\* runs.
UpdateCreditThrows(p, c) ==
  /\ proc[p].pc = "credit"
  /\ IF proc[p].path = "email"
     THEN \E r \in CreemLastResort(orders, now, proc[p].data) :
            proc' = [proc EXCEPT ![p] =
                       Kept([r EXCEPT !.request = proc[p].request], c.obs)]
     ELSE Goto(p, "failed", c)
  /\ UNCHANGED <<env, now, orders, calls, paypal, lastCheckout>>

\* await updateAffiliateForOrder(order)
UpdateAffiliate(p, c) ==
  LET o == proc[p].order_no IN
  /\ proc[p].pc = "affiliate"
  /\ calls' = [calls EXCEPT ![o].affiliate = @ + 1]
  /\ Goto(p, IF proc[p].paid_email # "" THEN "email" ELSE "done", c)
  /\ UNCHANGED <<env, now, orders, paypal, lastCheckout>>

\* await sendOrderConfirmationEmail(...): the e-mail is sent.
SendEmail(p, c) ==
  /\ proc[p].pc = "email"
  /\ Goto(p, "done", c)
  /\ UNCHANGED <<env, now, orders, calls, paypal, lastCheckout>>

\* The outcome of an invocation whose e-mail could not be sent.
EmailFailed(r, pc) ==
  [IdleProc EXCEPT !.pc = pc, !.kind = r.kind, !.event = r.event,
                   !.request = r.request,
                   !.err = "send order confirmation email failed"]

\* SendEmailThrows without the catch: the handler rethrows.
SendEmailThrows_Rethrown(p, c) ==
  /\ proc[p].pc = "email"
  /\ proc' = [proc EXCEPT ![p] = Kept(EmailFailed(proc[p], "failed"), c.obs)]
  /\ UNCHANGED <<env, now, orders, calls, paypal, lastCheckout>>

\* sendOrderConfirmationEmail throws: the handler catches, logs and goes on
\* to its end.
SendEmailThrows(p, c) ==
  /\ proc[p].pc = "email"
  /\ proc' = [proc EXCEPT ![p] = Kept(EmailFailed(proc[p], "done"), c.obs)]
  /\ UNCHANGED <<env, now, orders, calls, paypal, lastCheckout>>

Step(p, c) ==
  \/ UpdateStatus(p, c)
  \/ UpdateCredit(p, c)
  \/ UpdateCreditThrows(p, c)
  \/ UpdateAffiliate(p, c)
  \/ SendEmail(p, c)
  \/ SendEmailThrows(p, c)

\* ------------------------------------------------------- specifications
\* The requests for the credits pack.
BasicRequests == { r \in PricingRequests : r.product_id = "basic" }

\* Checkouts from the pricing page by signed-in users, the gateways' APIs
\* answering.
Shop(reqs, sessions) ==
  \/ Checkout(reqs, SignedIn, {TRUE}, FALSE)
  \/ CreemCheckout(reqs, SignedIn, sessions, FALSE)

\* PayPal approvals and visits of the PayPal pay-success page.
Buyers ==
  \/ \E o \in OrderNos : Approve(o)
  \/ \E o \in OrderNos : PaySuccessPage(o)

\* The gateways: webhook deliveries and the steps of their handlers.
\* c.serial: handler invocations run one at a time; c.obs: the outcome of a
\* finished invocation is kept; c.stripe, c.types, c.resources, c.creem:
\* the notifications delivered.
Webhooks(c) ==
  \/ \E p \in Procs : StripeWebhook(p, c)
  \/ \E p \in Procs : PayPalWebhook(p, c)
  \/ \E p \in Procs : CreemWebhook(p, c)
  \/ \E p \in Procs : Step(p, c)

AllDeliveries ==
  [serial |-> TRUE, obs |-> FALSE, stripe |-> StripeSessions,
   types |-> PayPalEventTypes, resources |-> PayPalResources,
   creem |-> CreemPayloads]

\* The notifications of a payment that name order 1 by an identifier,
\* delivered and redelivered.
Redeliveries ==
  [serial |-> FALSE, obs |-> FALSE,
   stripe |-> { s \in StripeSessions : s.order_no = 1 /\ s.payment_status = "paid" },
   types |-> { <<"PAYMENT.CAPTURE.COMPLETED", "">> },
   resources |-> { r \in PayPalResources : r.related_order_id = PayPalId(1) },
   creem |-> { d \in CreemPayloads : d.request_id = 1 }]

\* Handler invocations interleave at their awaits.
Next ==
  \/ Tick
  \/ Shop(BasicRequests, {"url"})
  \/ Buyers
  \/ Webhooks(Redeliveries)
Spec == Init /\ [][Next]_vars

\* Each handler invocation runs to completion before the next starts.
NextSeq ==
  \/ Tick
  \/ Shop(BasicRequests, {"url", "url_with_order_id"})
  \/ Buyers
  \/ Webhooks(AllDeliveries)
SpecSeq == Init /\ [][NextSeq]_vars

\* Checkout requests of any caller under any settings, each response kept.
InitCheckout == Deployed(Envs)
NextCheckout ==
  \/ Checkout(CheckoutRequests, Callers, BOOLEAN, TRUE)
  \/ CreemCheckout(CheckoutRequests, Callers, CreemSessions, TRUE)
SpecCheckout == InitCheckout /\ [][NextCheckout]_vars

\* Checkout requests built from the pricing table by any caller, every
\* gateway configured and answering, each response kept.
NextPricing ==
  \/ Checkout(PricedRequests, Visitors, {TRUE}, TRUE)
  \/ CreemCheckout(PricedRequests, Visitors, {"url"}, TRUE)
SpecPricing == Init /\ [][NextPricing]_vars

\* One invocation at a time, the outcome of each finished invocation kept;
\* the PayPal notifications name order 1 or no order.
Observed ==
  [AllDeliveries EXCEPT
     !.obs = TRUE,
     !.resources = { r \in PayPalResources :
                       r.related_order_id \in {NoId, PayPalId(1)} }]

NextObs == Shop(BasicRequests, {"url"}) \/ Webhooks(Observed)
SpecObs == Init /\ [][NextObs]_vars

\* Notifications of the payment of an order, with and without the payer's
\* e-mail, one at a time, each outcome kept.
Mailed ==
  [serial |-> TRUE, obs |-> TRUE,
   stripe |-> { StripeSession(1, "paid", "", e) : e \in {"", "b@x.io"} },
   types |-> { <<"PAYMENT.CAPTURE.COMPLETED", "">> },
   resources |-> { r \in PayPalResources : r.related_order_id = PayPalId(1) },
   creem |-> { d \in CreemPayloads :
                 d.request_id \in OrderNos \/ d.obj_order_id = CreemOrderId(1) }]

NextMail == Shop(BasicRequests, {"url_with_order_id"}) \/ Webhooks(Mailed)
SpecMail == Init /\ [][NextMail]_vars

\* Purchase attempts of the pricing page's buttons, by any visitor.
InitPayment ==
  /\ env = FullEnv
  /\ now = 0
  /\ orders = <<>>
  /\ calls = <<>>
  /\ paypal = <<>>
  /\ proc = [p \in Procs |-> IdleProc]
  /\ lastCheckout = NoAttempt

NextPayment ==
  \/ PostCheckout(PricingItems, Visitors)
  \/ PostCreem(CreemSessions)
SpecPayment == InitPayment /\ [][NextPayment]_vars

\* Requests at the Creem webhook route, one at a time, each outcome kept.
CreemRouted == [serial |-> TRUE, obs |-> TRUE, requests |-> CreemRequests]

\* The orders table after n Creem checkouts of the signed-in user that
\* nobody paid: the credits pack first, its checkout_url holding the Creem
\* order id, then yearly subscriptions.
Backlog(n) ==
  LET caller == CHOOSE c \in SignedIn : TRUE
      item(o) == CHOOSE i \in PricingItems :
                   i.product_id = IF o = 1 THEN "basic" ELSE "yearly"
  IN [o \in 1..n |->
        [NewOrder(Listed(item(o), "usd"), caller, item(o).credits, "")
           EXCEPT !.stripe_session_id = CreemSessionId(o),
                  !.order_detail =
                    [NoDetail EXCEPT !.kind = "creem",
                       !.url_ids = IF o = 1 THEN {CreemOrderId(o)} ELSE {}]]]

\* The site with no order yet, or with more unpaid orders than a scan reads.
InitScan ==
  /\ env = FullEnv
  /\ now = 0
  /\ \E n \in {0, ScanLimitAmount + 1, ScanLimitCreemId + 1} :
       /\ orders = Backlog(n)
       /\ calls = [o \in 1..n |-> NoCalls]
       /\ paypal = [o \in 1..n |-> "none"]
  /\ proc = [p \in Procs |-> IdleProc]
  /\ lastCheckout = NoCheckout

\* Time passes, up to two days.
Pass ==
  /\ now < LateTime
  /\ now' = now + 1
  /\ UNCHANGED <<env, orders, calls, paypal, proc, lastCheckout>>

\* Creem notifications without order number, one at a time, while days pass.
Scanned == [serial |-> TRUE, obs |-> FALSE, creem |-> ScanPayloads]

NextScan ==
  \/ Pass
  \/ Shop(BasicRequests, {"url_with_order_id"})
  \/ \E p \in Procs : CreemWebhook(p, Scanned)
  \/ \E p \in Procs : Step(p, Scanned)
SpecScan == InitScan /\ [][NextScan]_vars

\* Creem events that hold order numbers, one at a time, each outcome kept.
CreemNumbered == [serial |-> TRUE, obs |-> TRUE, requests |-> NumberedRequests]

NextNumbered ==
  \/ Shop(BasicRequests, {"url"})
  \/ \E p \in Procs : CreemNotify(p, CreemNumbered)
  \/ \E p \in Procs : Step(p, CreemNumbered)
SpecNumbered == Init /\ [][NextNumbered]_vars

NextCreem ==
  \/ Shop(BasicRequests, {"url"})
  \/ \E p \in Procs : CreemNotify(p, CreemRouted)
  \/ \E p \in Procs : Step(p, CreemRouted)
SpecCreem == Init /\ [][NextCreem]_vars

\* ------------------------------------------------------------ properties
\* C1: the status paid is terminal: once an order is paid, no step changes
\* its status, paid_at, paid_email or paid_detail again.
C1_PaidIsTerminal ==
  [][\A o \in DOMAIN orders :
       orders[o].status = OrderStatusPaid =>
         /\ orders'[o].status = orders[o].status
         /\ orders'[o].paid_at = orders[o].paid_at
         /\ orders'[o].paid_email = orders[o].paid_email
         /\ orders'[o].paid_detail = orders[o].paid_detail]_vars

\* C2: with each handler invocation run to completion before the next
\* starts, updateCreditForOrder and updateAffiliateForOrder are each invoked
\* at most once for any order, whatever is delivered or redelivered.
C2_Idempotent ==
  \A o \in DOMAIN calls : calls[o].credit <= 1 /\ calls[o].affiliate <= 1

\* An order with its credits granted and its affiliate updated, and a later
\* delivery for it that was skipped.
C2_Redelivered ==
  \E p \in Procs :
    /\ proc[p].pc = "done"
    /\ proc[p].path = "skipped"
    /\ calls[proc[p].order_no].credit = 1
    /\ calls[proc[p].order_no].affiliate = 1

\* C3: with handler invocations interleaved at their awaits, an order's
\* credits are granted at most once and the order is marked paid by exactly
\* one invocation (updateOrderStatus runs at most once for it).
C3_GrantedOnceUnderInterleaving ==
  \A o \in DOMAIN calls : calls[o].credit <= 1 /\ calls[o].status <= 1

\* C4: only the updateOrderStatus step of a webhook handler changes an
\* order's status, and it makes it paid; a checkout inserts its order as
\* created and leaves the other rows alone; a capture by the pay-success
\* page leaves the orders table unchanged.
C4_OnlyHandlersPay ==
  [][/\ \A o \in DOMAIN orders' \ DOMAIN orders :
          orders'[o].status = OrderStatusCreated
     /\ Len(orders') > Len(orders) =>
          \A o \in DOMAIN orders : orders'[o] = orders[o]
     /\ \A o \in DOMAIN orders :
          orders'[o].status # orders[o].status =>
            /\ orders'[o].status = OrderStatusPaid
            /\ \E p \in Procs : /\ proc[p].pc = "status"
                                /\ proc[p].order_no = o
                                /\ proc'[p].pc # "status"
     /\ (\E o \in DOMAIN paypal : paypal[o] # "captured" /\ paypal'[o] = "captured")
          => orders' = orders]_vars

\* The pay-success page's capture has succeeded and the order is still
\* created.
C4_CapturedStillCreated ==
  \E o \in DOMAIN orders :
    paypal[o] = "captured" /\ orders[o].status = OrderStatusCreated

\* C5, as stated: a handler given a payload without a usable order
\* identifier does not fail when a created order has the payload's e-mail
\* and amount.
C5_FallbackInsteadOfFailing ==
  \A p \in Procs : proc[p].no_id /\ proc[p].fallback => proc[p].pc # "failed"

\* C5, amended: an order named by an identifier is reached by it; without
\* an identifier handleOrderSession and handlePayPalOrder throw, and only
\* handleCreemOrder goes on, to a match by Creem order id, by e-mail and
\* amount, or by amount alone.
C5_OnlyCreemFallsBack ==
  \A p \in Procs :
    /\ proc[p].kind \in {"stripe", "paypal"} /\ proc[p].no_id => proc[p].pc = "failed"
    /\ InFlight(p) /\ ~proc[p].no_id => proc[p].path = "id"
    /\ InFlight(p) /\ proc[p].no_id =>
         /\ proc[p].kind = "creem"
         /\ proc[p].path \in {"creem_id", "email", "amount"}

\* handlePayPalOrder threw for a payload without an order id although a
\* created order has the payload's e-mail and amount.
C5_PayPalFailedDespiteMatch ==
  \E p \in Procs :
    /\ proc[p].kind = "paypal"
    /\ proc[p].pc = "failed"
    /\ proc[p].no_id
    /\ proc[p].fallback

\* C6: whenever handleCreemOrder is about to mark an order paid for a
\* payload with no order number (and, here, no Creem order id either), the
\* order's user e-mail equals the payload's customer e-mail, case aside, and
\* its amount is within 1 of the payload's.
C6_MatchesEmailAndAmount ==
  \A p \in Procs :
    (/\ proc[p].pc = "status"
     /\ proc[p].kind = "creem"
     /\ proc[p].no_id
     /\ proc[p].data.obj_order_id = NoId) =>
      /\ toLowerCase(orders[proc[p].order_no].user_email)
           = toLowerCase(CustomerEmail(proc[p].data))
      /\ Abs(orders[proc[p].order_no].amount - CustomerAmount(proc[p].data)) <= 1

\* C7: handleCreemOrder calls updateOrderStatus only for a payload whose
\* payment status is paid, succeeded or completed.
C7_OnlyPaidStatus ==
  \A p \in Procs :
    proc[p].pc = "status" /\ proc[p].kind = "creem" =>
      IsPaidStatus(PaymentStatus(proc[p].data))

\* C8, as stated: the PayPal route goes on to mark an order paid only for
\* an event whose event_type (or type) is PAYMENT.CAPTURE.COMPLETED or
\* PAYMENT.SALE.COMPLETED.
C8_OnlyCompletedEvents ==
  \A p \in Procs :
    proc[p].kind = "paypal" /\ InFlight(p) =>
      \/ proc[p].event[1] \in {"PAYMENT.CAPTURE.COMPLETED", "PAYMENT.SALE.COMPLETED"}
      \/ /\ proc[p].event[1] = ""
         /\ proc[p].event[2] \in {"PAYMENT.CAPTURE.COMPLETED", "PAYMENT.SALE.COMPLETED"}

\* C8, amended: with the type taken as parsePayPalWebhookEvent reports it
\* (event_type, else type, else PAYMENT.CAPTURE.COMPLETED), the route goes
\* on to mark an order paid only for the two completed types, and for any
\* other type it returns OK at once, before any order is touched.
C8_OnlyParsedCompletedEvents ==
  \A p \in Procs :
    proc[p].kind = "paypal" =>
      LET type == parsePayPalWebhookEvent(proc[p].event[1], proc[p].event[2]) IN
      /\ InFlight(p) =>
           type \in {"PAYMENT.CAPTURE.COMPLETED", "PAYMENT.SALE.COMPLETED"}
      /\ type \notin {"PAYMENT.CAPTURE.COMPLETED", "PAYMENT.SALE.COMPLETED"} =>
           /\ proc[p].pc = "done"
           /\ proc[p].path = "none"

\* CHECKOUT.ORDER.APPROVED was delivered and answered OK while a PayPal
\* order is still created.
C8_ApprovalSkipped ==
  \E p \in Procs :
    /\ proc[p].kind = "paypal"
    /\ proc[p].pc = "done"
    /\ proc[p].event = <<"CHECKOUT.ORDER.APPROVED", "">>
    /\ \E o \in DOMAIN orders :
         /\ orders[o].pay_type = "paypal"
         /\ orders[o].status = OrderStatusCreated

\* C9: POST /api/checkout uses the request's payment_method as given;
\* without one it takes creem when Creem is configured, else stripe when
\* Stripe is, else paypal when PayPal is; and when nothing is configured it
\* fails with 'No payment method available' and inserts no order.
C9_PaymentMethod ==
  LET creem == env.CREEM_API_KEY \/ env.NEXT_PUBLIC_CREEM_PRODUCT_ID
      pp == env.PAYPAL_CLIENT_ID /\ env.PAYPAL_CLIENT_SECRET
      pm == lastCheckout.payment_method
  IN
  lastCheckout.route = "checkout" =>
    IF lastCheckout.requested # "" THEN pm = lastCheckout.requested
    ELSE IF creem THEN pm = "creem"
    ELSE IF env.STRIPE_PRIVATE_KEY THEN pm = "stripe"
    ELSE IF pp THEN pm = "paypal"
    ELSE /\ lastCheckout.err = ErrNoPaymentMethod
         /\ lastCheckout.inserted = 0

\* A request without payment_method was served as creem although Stripe
\* and PayPal are configured too.
C9_CreemByDefault ==
  /\ lastCheckout.route = "checkout"
  /\ lastCheckout.requested = ""
  /\ lastCheckout.payment_method = "creem"
  /\ lastCheckout.inserted = 1
  /\ env.STRIPE_PRIVATE_KEY
  /\ env.PAYPAL_CLIENT_ID /\ env.PAYPAL_CLIENT_SECRET

\* C11: an order row of /api/checkout exists only if its product_id names
\* an item of the pricing table whose interval, credits and valid_months are
\* the requested ones and whose price is the requested amount (cn_amount
\* for currency cny, else amount in the item's currency), with the interval
\* one of year, month, one-time and valid_months 12 for year, 1 for month.
C11_OrderMatchesPricing ==
  \A o \in DOMAIN orders :
    orders[o].pay_type # "" =>
      /\ \E i \in PricingItems :
           /\ i.product_id = orders[o].product_id
           /\ i.interval = orders[o].interval
           /\ i.credits = orders[o].credits
           /\ i.valid_months = orders[o].valid_months
           /\ IF orders[o].currency = "cny" THEN i.cn_amount = orders[o].amount
              ELSE i.amount = orders[o].amount /\ i.currency = orders[o].currency
      /\ orders[o].interval \in {"year", "month", "one-time"}
      /\ orders[o].interval = "year" => orders[o].valid_months = 12
      /\ orders[o].interval = "month" => orders[o].valid_months = 1

\* /api/checkout inserted the yearly subscription priced in cny, then
\* refused a request with "invalid valid_months".
C11_YearlyInsertedOtherRefused ==
  /\ \E o \in DOMAIN orders :
       /\ orders[o].pay_type # ""
       /\ orders[o].interval = "year"
       /\ orders[o].currency = "cny"
  /\ lastCheckout.route = "checkout"
  /\ lastCheckout.err = "invalid valid_months"
  /\ lastCheckout.inserted = 0

\* C12: both checkout routes insert an order only for a caller with a
\* non-empty user uuid and a non-empty e-mail: every order row has non-empty
\* user_uuid and user_email, and status created when it is inserted.
C12_OrdersOfSignedInUsers ==
  [][\A o \in DOMAIN orders' :
       /\ orders'[o].user_uuid # ""
       /\ orders'[o].user_email # ""
       /\ o \notin DOMAIN orders => orders'[o].status = OrderStatusCreated]_vars

\* An order was inserted with the e-mail of the user record, and the last
\* request, of a signed-in caller without any e-mail, was refused.
C12_InsertedAndRefused ==
  /\ \E o \in DOMAIN orders : orders[o].user_email = "c@x.io"
  /\ lastCheckout.err = "invalid user"
  /\ lastCheckout.inserted = 0

\* C13: the Creem webhook route, its secret configured, calls
\* handleCreemOrder only for a request whose signature verifies as the
\* HMAC-SHA256 of the raw body under CREEM_WEBHOOK_SECRET; a request with a
\* JSON body whose signature does not verify is answered 401 (invalid
\* signature) without handleCreemOrder being called.
C13_OnlyVerifiedRequestsHandled ==
  \A p \in Procs :
    LET r == proc[p].request IN
    (r.secret # "" /\ r.body.kind = "json") =>
      \/ verifyCreemWebhookSignature(r.body, r.signature, r.secret)
      \/ /\ proc[p].kind = "creem-route"
         /\ proc[p].err = "invalid signature"

\* C14 as stated: the order number handleCreemOrder works with is the first
\* non-empty one of request_id, object.request_id, order_no, order_id,
\* metadata.order_no, metadata.order_id, object.metadata.order_no,
\* object.metadata.order_id, object.order.metadata.order_no,
\* object.order.metadata.order_id; when there is one no fallback matching
\* runs, the order worked on is the one with that number, and a number no
\* order has makes the handler throw.
C14_FirstNumberElseThrows ==
  \A p \in Procs :
    LET d == proc[p].request.body.data
        n == FirstNumber(<<d.request_id, d.obj_request_id, d.order_no, d.order_id,
                           d.md_order_no, d.md_order_id, d.obj_md_order_no,
                           d.obj_md_order_id, d.obj_order_md_order_no,
                           d.obj_order_md_order_id>>)
    IN
    (proc[p].request.body.kind = "json" /\ n # 0) =>
      /\ proc[p].kind = "creem"
      /\ ~proc[p].no_id
      /\ proc[p].path \in {"none", "id", "skipped"}
      /\ proc[p].order_no \in {0, n}
      /\ proc[p].pc = "status" => proc[p].order_no = n
      /\ n \notin DOMAIN orders => proc[p].pc = "failed"

\* C14, with the payment status taken into account: as above, but a number
\* no order has makes the handler throw only when the payment status is
\* paid, succeeded or completed; with another status the handler returns
\* before it looks the order up.
C14_FirstNumberElseThrowsWhenPaid ==
  \A p \in Procs :
    LET d == proc[p].request.body.data
        n == FirstNumber(<<d.request_id, d.obj_request_id, d.order_no, d.order_id,
                           d.md_order_no, d.md_order_id, d.obj_md_order_no,
                           d.obj_md_order_id, d.obj_order_md_order_no,
                           d.obj_order_md_order_id>>)
        paid == FirstString(<<d.obj_order_status, d.status, d.payment_status>>)
                  \in {"paid", "succeeded", "completed"}
    IN
    (proc[p].request.body.kind = "json" /\ n # 0) =>
      /\ proc[p].kind = "creem"
      /\ ~proc[p].no_id
      /\ proc[p].path \in {"none", "id", "skipped"}
      /\ proc[p].order_no \in {0, n}
      /\ proc[p].pc = "status" => proc[p].order_no = n
      /\ n \notin DOMAIN orders =>
           IF paid THEN proc[p].pc = "failed" ELSE proc[p].pc = "done"

\* handleCreemOrder is about to mark order 1 paid for an event that holds 1
\* in metadata.order_no and 2, the number of another created order of the
\* same buyer and amount, in metadata.order_id.
C14_EarlierFieldWins ==
  \E p \in Procs :
    /\ proc[p].pc = "status"
    /\ proc[p].order_no = 1
    /\ proc[p].data.md_order_no = 1
    /\ proc[p].data.md_order_id = 2
    /\ 2 \in DOMAIN orders
    /\ orders[2].status = OrderStatusCreated

\* C15: the order the Creem-order-id scan or the amount-only scan of
\* handleCreemOrder selects is created, was created within the last 24
\* hours, is among the newest 50 (10 in the amount-only scan) such orders,
\* and is the newest of them that matches; a paid order or one older than
\* 24 hours is never selected.
C15_ScansSelectNewestRecentCreated ==
  [][\A p \in Procs :
       (/\ proc'[p].pc = "status" /\ proc[p].pc # "status"
        /\ proc'[p].path \in {"creem_id", "amount"}) =>
         LET o == proc'[p].order_no
             d == proc'[p].data
             limit == IF proc'[p].path = "amount" THEN 10 ELSE 50
             seen(q) == /\ orders[q].status = OrderStatusCreated
                        /\ orders[q].created_at >= now - Day
             fits(q) == IF proc'[p].path = "amount" THEN MatchesAmount(orders[q], d)
                        ELSE MatchesCreemOrder(orders[q], d)
         IN /\ o \in DOMAIN orders
            /\ seen(o) /\ fits(o)
            /\ Cardinality({ q \in DOMAIN orders : q > o /\ seen(q) }) < limit
            /\ \A q \in DOMAIN orders : (q > o /\ seen(q)) => ~fits(q)]_vars

\* The amount-only scan selected an order although an older order that is
\* still created has the same amount: that one is more than 24 hours old.
C15_StaleOrderPassedOver ==
  \E p \in Procs, q \in DOMAIN orders :
    /\ proc[p].pc = "status"
    /\ proc[p].path = "amount"
    /\ q < proc[p].order_no
    /\ orders[q].status = OrderStatusCreated
    /\ orders[q].created_at < now - Day
    /\ MatchesAmount(orders[q], proc[p].data)

\* C16: a webhook pays only orders created for its gateway: the order
\* handleCreemOrder is about to mark paid has no pay_type paypal or stripe
\* (checked here for payloads that hold no order number), and the order
\* handlePayPalOrder is about to mark paid has the PayPal order id named in
\* the webhook as its stored session id.
C16_OwnGatewayOnly ==
  \A p \in Procs :
    proc[p].pc = "status" =>
      LET row == orders[proc[p].order_no] IN
      /\ (proc[p].kind = "creem" /\ proc[p].no_id) =>
            row.pay_type \notin {"paypal", "stripe"}
      /\ proc[p].kind = "paypal" =>
            row.stripe_session_id = IF proc[p].data.related_order_id # NoId
                                    THEN proc[p].data.related_order_id
                                    ELSE proc[p].data.order_id

\* C17: whenever no webhook handler is running, an order with a user_uuid
\* and credits > 0 is paid if and only if its credits have been granted.
C17_PaidIffCreditsGranted ==
  (\A q \in Procs : ~InFlight(q)) =>
    \A o \in DOMAIN orders :
      (orders[o].user_uuid # "" /\ orders[o].credits > 0) =>
        (orders[o].status = OrderStatusPaid <=> calls[o].credit > 0)

\* C18: updateCreditForOrder and updateAffiliateForOrder are called for an
\* order only after updateOrderStatus was; and once the handler that marked
\* the order paid is over, the credits have been granted if and only if the
\* order has a user_uuid and credits > 0, and the affiliate update has run
\* if and only if the order has a user_uuid.
C18_CreditsAndAffiliateFollowStatus ==
  \A o \in DOMAIN orders :
    /\ (calls[o].credit > 0 \/ calls[o].affiliate > 0) => calls[o].status > 0
    /\ (/\ calls[o].status > 0
        /\ \A q \in Procs : InFlight(q) => proc[q].order_no # o) =>
         /\ calls[o].credit > 0 <=>
              (orders[o].user_uuid # "" /\ orders[o].credits > 0)
         /\ calls[o].affiliate > 0 <=> orders[o].user_uuid # ""

\* C19: a handler sends the confirmation e-mail only for a non-empty paid
\* e-mail and after the order is paid; whether the e-mail is sent or the
\* send throws, the handler ends without error and the step changes no
\* order and no granted credits.
C19_EmailFailureIsHarmless ==
  [][\A p \in Procs :
       proc[p].pc = "email" =>
         /\ proc[p].paid_email # ""
         /\ orders[proc[p].order_no].status = OrderStatusPaid
         /\ proc'[p] # proc[p] =>
              /\ proc'[p].pc = "done"
              /\ orders' = orders
              /\ calls' = calls]_vars

\* An order was paid without paid e-mail, so that no e-mail was attempted;
\* then the e-mail for another order could not be sent, and that order is
\* paid with its credits granted and the handler ended without error.
C19_EmailFailedOrderPaid ==
  /\ \E p \in Procs :
       /\ proc[p].pc = "done"
       /\ proc[p].err = "send order confirmation email failed"
  /\ \E o \in DOMAIN orders :
       /\ orders[o].status = OrderStatusPaid
       /\ orders[o].paid_email = ""
       /\ calls[o].credit = 1
  /\ \E o \in DOMAIN orders :
       /\ orders[o].status = OrderStatusPaid
       /\ orders[o].paid_email # ""
       /\ calls[o].credit = 1

\* C20 as stated: for a verified JSON request the route calls
\* handleCreemOrder exactly when the event type is payment.succeeded,
\* payment.success, checkout.completed or charge.succeeded, the type being
\* the payload's type, else its event, else inferred from status (paid,
\* succeeded, completed: payment.succeeded; failed: payment.failed;
\* anything else: payment.unknown), else payment.succeeded; for every other
\* type it answers OK without calling the handler.
C20_HandledExactlyForPaidTypes ==
  \A p \in Procs :
    LET r == proc[p].request
        e == r.body
        st == e.top.status
        type == IF e.type # "" THEN e.type
                ELSE IF e.event # "" THEN e.event
                ELSE IF st # ""
                THEN IF st \in {"paid", "succeeded", "completed"}
                     THEN "payment.succeeded"
                     ELSE IF st = "failed" THEN "payment.failed"
                     ELSE "payment.unknown"
                ELSE "payment.succeeded"
    IN
    (e.kind = "json" /\ verifyCreemWebhookSignature(e, r.signature, r.secret)) =>
      IF type \in {"payment.succeeded", "payment.success", "checkout.completed",
                   "charge.succeeded"}
      THEN proc[p].kind = "creem"
      ELSE /\ proc[p].kind = "creem-route"
           /\ proc[p].pc = "done"
           /\ proc[p].err = ""

\* C20, the status read in lower case: as above, with the type inferred
\* from the lower-cased status, so that PAID, like paid, gives
\* payment.succeeded.
C20_HandledExactlyForPaidTypesAnyCase ==
  \A p \in Procs :
    LET r == proc[p].request
        e == r.body
        st == toLowerCase(e.top.status)
        type == IF e.type # "" THEN e.type
                ELSE IF e.event # "" THEN e.event
                ELSE IF e.top.status # ""
                THEN IF st \in {"paid", "succeeded", "completed"}
                     THEN "payment.succeeded"
                     ELSE IF st = "failed" THEN "payment.failed"
                     ELSE "payment.unknown"
                ELSE "payment.succeeded"
    IN
    (e.kind = "json" /\ verifyCreemWebhookSignature(e, r.signature, r.secret)) =>
      IF type \in {"payment.succeeded", "payment.success", "checkout.completed",
                   "charge.succeeded"}
      THEN proc[p].kind = "creem"
      ELSE /\ proc[p].kind = "creem-route"
           /\ proc[p].pc = "done"
           /\ proc[p].err = ""

\* A signed event without type and event whose status is PAID was handed to
\* handleCreemOrder, which marked order 1 paid.
C20_UpperCaseStatusHandled ==
  \E p \in Procs :
    /\ proc[p].kind = "creem"
    /\ proc[p].pc = "done"
    /\ proc[p].request.body.kind = "json"
    /\ proc[p].request.body.type = ""
    /\ proc[p].request.body.event = ""
    /\ proc[p].request.body.top.status = "PAID"
    /\ 1 \in DOMAIN orders
    /\ orders[1].status = OrderStatusPaid
    /\ orders[1].paid_detail = proc[p].request.body.top

\* C21: a Creem purchase attempt of processPayment that ended with a
\* checkout session inserted exactly one order row, and the order_no
\* returned to the client is that of the row the session is attached to.
C21_OneAttemptOneOrder ==
  (lastCheckout.route = "creem" /\ lastCheckout.err = "") =>
    /\ lastCheckout.rows = 1
    /\ orders[lastCheckout.order_no].stripe_session_id
         = CreemSessionId(lastCheckout.order_no)

\* C10: an order of the PayPal checkout, its PayPal order id stored, is
\* made paid only by the updateOrderStatus step of a PayPal webhook whose
\* related order id (or order_id) is that id; approval and the pay-success
\* page's capture leave it created.  (An invocation of another gateway that
\* was given this order's number is left aside here.)
C10_PaidByPayPalCapture ==
  [][\A o \in DOMAIN orders :
       (/\ orders[o].pay_type = "paypal"
        /\ orders[o].stripe_session_id = PayPalId(o)
        /\ orders[o].status = OrderStatusCreated
        /\ orders'[o].status = OrderStatusPaid) =>
         \E p \in Procs :
           /\ proc[p].pc = "status"
           /\ proc[p].order_no = o
           /\ \/ proc[p].kind # "paypal" /\ proc[p].path = "id"
              \/ /\ proc[p].kind = "paypal"
                 /\ PayPalId(o) = IF proc[p].data.related_order_id # NoId
                                  THEN proc[p].data.related_order_id
                                  ELSE proc[p].data.order_id]_vars
====
